---- MODULE Spec2Model ----
(***************************************************************************)
(* Vocabulary learning application (src/main.py): the topic files kept by  *)
(* VocabularyFilesManager and the commands of Application that create a    *)
(* topic, add an item and run the vocabulary test.                         *)
(***************************************************************************)
EXTENDS Integers, Sequences, FiniteSets, TLC

VARIABLES
    store,     \* topic name -> the topic's JSON file under TOPICS_FOLDER
    pc,        \* "repl", "quiz" (inside the for loop), "exited", "crashed"
    items,     \* vocabulary_test's local list while the loop runs
    index,     \* vocabulary_test's loop position (1-based)
    qtopic,    \* vocabulary_test's topic argument while the loop runs
    out,       \* the last message printed
    runs,      \* number of vocabulary tests started (bounds Spec)
    streak     \* the current run of equal verdicts (read by the drill only)

vars == <<store, pc, items, index, qtopic, out, runs, streak>>

(***************************************************************************)
(* Bounds.                                                                 *)
(***************************************************************************)
MaxItems == 3
MaxRuns == 1
MaxStreak == 11

(***************************************************************************)
(* Python floats.  Every score the program computes is a multiple of       *)
(* 2^-56 below 2, so a double is kept exactly as sign and magnitude        *)
(* (hi * 2^28 + lo) * 2^-56, and every sum is rounded to 53 significant    *)
(* bits, ties to even, as IEEE 754 binary64 arithmetic does.  The int 0    *)
(* (the dataclass default) and the float 0.0 compare equal and are both    *)
(* Zero.                                                                   *)
(***************************************************************************)
Base == 2^28

D(h, l) == [neg |-> FALSE, hi |-> h, lo |-> l]

Zero == D(0, 0)

\* the literal 1.0
One == D(Base, 0)

\* the literal 0.1 = 7205759403792794 * 2^-56
Tenth == D(26843545, 161061274)

IsZero(a) == a.hi = 0 /\ a.lo = 0

Neg(a) == IF IsZero(a) THEN a ELSE [a EXCEPT !.neg = ~a.neg]

MagLess(a, b) == a.hi < b.hi \/ (a.hi = b.hi /\ a.lo < b.lo)

\* a < b on floats
FLess(a, b) ==
    IF a.neg /\ ~b.neg THEN ~(IsZero(a) /\ IsZero(b))
    ELSE IF ~a.neg /\ b.neg THEN FALSE
    ELSE IF a.neg THEN MagLess(b, a)
    ELSE MagLess(a, b)

\* the spacing of doubles in the binade of a magnitude, in units of 2^-56
Ulp(h) ==
    IF h < 2^25 THEN 1
    ELSE IF h < 2^26 THEN 2
    ELSE IF h < 2^27 THEN 4
    ELSE IF h < 2^28 THEN 8
    ELSE IF h < 2^29 THEN 16
    ELSE 32

\* round an exact magnitude to the nearest double, ties to even
Round(h, l) ==
    LET u == Ulp(h)
        r == l % u
        down == l - r
        up == IF 2 * r < u THEN FALSE
              ELSE IF 2 * r > u THEN TRUE
              ELSE (down \div u) % 2 = 1
        l2 == IF up THEN down + u ELSE down
    IN  IF l2 >= Base THEN <<h + 1, l2 - Base>> ELSE <<h, l2>>

MagAdd(a, b) ==
    LET l == a.lo + b.lo
        h == a.hi + b.hi + (IF l >= Base THEN 1 ELSE 0)
    IN  Round(h, l % Base)

\* a - b for magnitudes with b <= a
MagSub(a, b) ==
    LET borrow == a.lo < b.lo
        l == IF borrow THEN a.lo + Base - b.lo ELSE a.lo - b.lo
        h == a.hi - b.hi - (IF borrow THEN 1 ELSE 0)
    IN  Round(h, l)

\* a + b on floats
FAdd(a, b) ==
    IF a.neg = b.neg
    THEN LET m == MagAdd(a, b) IN [neg |-> a.neg, hi |-> m[1], lo |-> m[2]]
    ELSE IF MagLess(a, b)
    THEN LET m == MagSub(b, a) IN [neg |-> b.neg, hi |-> m[1], lo |-> m[2]]
    ELSE LET m == MagSub(a, b)
         IN  [neg |-> a.neg /\ ~(m[1] = 0 /\ m[2] = 0), hi |-> m[1], lo |-> m[2]]

\* a - b on floats
FSub(a, b) == FAdd(a, Neg(b))

\* Python's min(a, b) and max(a, b): the first argument unless the second wins
PyMin(a, b) == IF FLess(b, a) THEN b ELSE a

PyMax(a, b) == IF FLess(a, b) THEN b ELSE a

(***************************************************************************)
(* Strings are sequences of one-character strings.                         *)
(***************************************************************************)
RECURSIVE LStrip(_)
LStrip(s) ==
    IF s = <<>> THEN s
    ELSE IF Head(s) = " " THEN LStrip(Tail(s))
    ELSE s

RECURSIVE RStrip(_)
RStrip(s) ==
    IF s = <<>> THEN s
    ELSE IF s[Len(s)] = " " THEN RStrip(SubSeq(s, 1, Len(s) - 1))
    ELSE s

\* str.strip()
Strip(s) == RStrip(LStrip(s))

LowerChar(c) ==
    IF c = "P" THEN "p"
    ELSE IF c = "F" THEN "f"
    ELSE c

\* str.lower()
Lower(s) == [i \in 1..Len(s) |-> LowerChar(s[i])]

(***************************************************************************)
(* What the user types.                                                    *)
(***************************************************************************)
\* the topic word of a command line
TopicTokens == {<<"F">>, <<"g">>}

WordLines == {<<"w">>, <<" ", "w">>, <<" ">>}

TransLines == {<<"P">>, <<"P", " ">>, <<>>}

\* the lines typed at the context prompt, up to the line that ends the loop
ContextStreams ==
    { << <<" ">> >>,
      << <<" ", "d">>, <<"c">>, <<>> >> }

AnswerLines == {<<"p">>, <<"P">>}

Topics == {Lower(t) : t \in TopicTokens}

(***************************************************************************)
(* VocabularyItem and the topic files.                                     *)
(***************************************************************************)
Fields == {"word", "translation", "contexts", "memorization"}

\* VocabularyItem(word=..., translation=...), contexts filled by the prompt
VocabularyItem(w, t, c, m) ==
    [word |-> w, translation |-> t, contexts |-> c, memorization |-> m]

\* a topic file: absent, or its text as json.load sees it
NoFile == [kind |-> "absent", data |-> <<>>]

ArrayFile(recs) == [kind |-> "array", data |-> recs]

Malformed == [kind |-> "malformed", data |-> <<>>]

\* check_topic_existence
check_topic_existence(st, topic) == st[topic].kind # "absent"

\* VocabularyItem(**item) raises TypeError on an unknown key or on a missing
\* word or translation
Constructible(rec) ==
    /\ DOMAIN rec \subseteq Fields
    /\ {"word", "translation"} \subseteq DOMAIN rec

\* a variant that passes word, translation and memorization and forgets
\* the contexts
FromRecordNoContexts(rec) ==
    VocabularyItem(rec.word, rec.translation, <<>>,
                   IF "memorization" \in DOMAIN rec THEN rec.memorization ELSE Zero)

\* VocabularyItem(**item): contexts and memorization take their defaults
FromRecord(rec) ==
    VocabularyItem(rec.word, rec.translation,
                   IF "contexts" \in DOMAIN rec THEN rec.contexts ELSE <<>>,
                   IF "memorization" \in DOMAIN rec THEN rec.memorization ELSE Zero)

\* place x in a list already in descending order, after every element that
\* does not compare below it (list.sort is stable, also with reverse=True)
RECURSIVE InsertDesc(_, _)
InsertDesc(s, x) ==
    IF s = <<>> THEN <<x>>
    ELSE IF FLess(Head(s).memorization, x.memorization) THEN <<x>> \o s
    ELSE <<Head(s)>> \o InsertDesc(Tail(s), x)

RECURSIVE SortFrom(_, _)
SortFrom(acc, s) ==
    IF s = <<>> THEN acc ELSE SortFrom(InsertDesc(acc, Head(s)), Tail(s))

RECURSIVE InsertAsc(_, _)
InsertAsc(s, x) ==
    IF s = <<>> THEN <<x>>
    ELSE IF FLess(x.memorization, Head(s).memorization) THEN <<x>> \o s
    ELSE <<Head(s)>> \o InsertAsc(Tail(s), x)

RECURSIVE SortAscFrom(_, _)
SortAscFrom(acc, s) ==
    IF s = <<>> THEN acc ELSE SortAscFrom(InsertAsc(acc, Head(s)), Tail(s))

\* a variant that sorts ascending and reverses the result, which turns
\* around the items of equal score
SortDescReversed(s) ==
    LET a == SortAscFrom(<<>>, s)
    IN  [i \in 1..Len(a) |-> a[Len(a) + 1 - i]]

\* items.sort(key=lambda x: x.memorization, reverse=True)
SortDesc(s) == SortFrom(<<>>, s)

\* the list comprehension of load_vocabulary_items meets a record the
\* dataclass rejects
LoadRaises(st, topic) ==
    /\ st[topic].kind = "array"
    /\ \E i \in 1..Len(st[topic].data) : ~Constructible(st[topic].data[i])

\* load_vocabulary_items: None for an absent topic, [] for malformed JSON,
\* an escaping TypeError for a record the dataclass rejects
load_vocabulary_items(st, topic) ==
    IF ~check_topic_existence(st, topic)
    THEN [status |-> "none", items |-> <<>>]
    ELSE LET data == IF st[topic].kind = "malformed" THEN <<>> ELSE st[topic].data
         IN  IF LoadRaises(st, topic)
             THEN [status |-> "TypeError", items |-> <<>>]
             ELSE [status |-> "ok",
                   items |-> SortDesc([i \in 1..Len(data) |-> FromRecord(data[i])])]

\* dump_vocabulary_items: asdict of every item, nothing for an absent topic
dump_vocabulary_items(st, topic, its) ==
    IF ~check_topic_existence(st, topic) THEN st
    ELSE [st EXCEPT ![topic] = ArrayFile(its)]

\* add_item_to_topic, once the load has returned
add_item_to_topic(st, topic, item) ==
    dump_vocabulary_items(st, topic,
        Append(load_vocabulary_items(st, topic).items, item))

(***************************************************************************)
(* Application.                                                            *)
(***************************************************************************)
RECURSIVE ReadRest(_)
ReadRest(stream) ==
    IF stream = <<>> THEN <<>>
    ELSE LET context == Strip(Head(stream))
         IN  IF context = <<>> THEN <<>>
             ELSE <<context>> \o ReadRest(Tail(stream))

\* a variant that reads one line before the loop and never stores it
ReadContextsDropFirst(stream) ==
    IF stream = <<>> THEN <<>> ELSE ReadRest(Tail(stream))

\* the while loop of add_item: strip each line, stop at the first empty one
RECURSIVE ReadContexts(_)
ReadContexts(stream) ==
    IF stream = <<>> THEN <<>>
    ELSE LET context == Strip(Head(stream))
         IN  IF context = <<>> THEN <<>>
             ELSE <<context>> \o ReadContexts(Tail(stream))

\* a variant that adds and subtracts without min and max
ScoreNoClamp(item, user_translation) ==
    IF user_translation = Lower(item.translation)
    THEN [item EXCEPT !.memorization = FAdd(item.memorization, Tenth)]
    ELSE [item EXCEPT !.memorization = FSub(item.memorization, Tenth)]

\* the branch of vocabulary_test's loop body for one answer
Score(item, user_translation) ==
    IF user_translation = Lower(item.translation)
    THEN [item EXCEPT !.memorization = PyMin(One, FAdd(item.memorization, Tenth))]
    ELSE [item EXCEPT !.memorization = PyMax(Zero, FSub(item.memorization, Tenth))]

Init ==
    /\ store = [t \in Topics |-> NoFile]
    /\ pc = "repl"
    /\ items = <<>>
    /\ index = 0
    /\ qtopic = <<>>
    /\ out = ""
    /\ runs = 0
    /\ streak = [correct |-> 0, wrong |-> 0]

\* a variant that opens the file for writing without looking for it first
create_topic_overwrite(topic) ==
    /\ pc = "repl"
    /\ IF Strip(topic) = <<>>
       THEN out' = "Error: Topic name cannot be empty" /\ store' = store
       ELSE /\ store' = [store EXCEPT ![topic] = ArrayFile(<<>>)]
            /\ out' = "Topic created successfully!"
    /\ UNCHANGED <<pc, items, index, qtopic>>

\* create_topic
create_topic(topic) ==
    /\ pc = "repl"
    /\ IF Strip(topic) = <<>>
       THEN out' = "Error: Topic name cannot be empty" /\ store' = store
       ELSE IF check_topic_existence(store, topic)
       THEN out' = "Error: Topic already exists" /\ store' = store
       ELSE /\ store' = [store EXCEPT ![topic] = ArrayFile(<<>>)]
            /\ out' = "Topic created successfully!"
    /\ UNCHANGED <<pc, items, index, qtopic>>

\* add_item, with the lines typed at its three prompts
add_item(topic, wordLine, transLine, stream) ==
    /\ pc = "repl"
    /\ LET word == Strip(wordLine)
           translation == Strip(transLine)
           item == VocabularyItem(word, translation, ReadContexts(stream), Zero)
       IN  IF ~check_topic_existence(store, topic)
           THEN out' = "This topic does not exist yet" /\ UNCHANGED <<store, pc>>
           ELSE IF word = <<>>
           THEN out' = "Word cannot be empty" /\ UNCHANGED <<store, pc>>
           ELSE IF translation = <<>>
           THEN out' = "Translation cannot be empty" /\ UNCHANGED <<store, pc>>
           ELSE IF LoadRaises(store, topic)
           THEN out' = "TypeError" /\ pc' = "crashed" /\ store' = store
           ELSE /\ out' = "Vocabulary item has been added successfully"
                /\ pc' = pc
                /\ store' = add_item_to_topic(store, topic, item)
    /\ UNCHANGED <<items, index, qtopic>>

\* a variant without the test for an empty list: the loop runs no pass
\* and the list is dumped
vocabulary_test_no_empty_check(topic) ==
    /\ pc = "repl"
    /\ LET loaded == load_vocabulary_items(store, topic)
       IN  IF ~check_topic_existence(store, topic)
           THEN /\ out' = "This topic does not exist yet"
                /\ UNCHANGED <<store, pc, items, index, qtopic>>
           ELSE IF LoadRaises(store, topic)
           THEN /\ out' = "TypeError"
                /\ pc' = "crashed"
                /\ UNCHANGED <<store, items, index, qtopic>>
           ELSE IF loaded.items = <<>>
           THEN /\ store' = dump_vocabulary_items(store, topic, <<>>)
                /\ out' = out
                /\ UNCHANGED <<pc, items, index, qtopic>>
           ELSE /\ pc' = "quiz"
                /\ items' = loaded.items
                /\ index' = 1
                /\ qtopic' = topic
                /\ out' = "Word"
                /\ store' = store

\* vocabulary_test up to its first prompt
vocabulary_test(topic) ==
    /\ pc = "repl"
    /\ LET loaded == load_vocabulary_items(store, topic)
       IN  IF ~check_topic_existence(store, topic)
           THEN /\ out' = "This topic does not exist yet"
                /\ UNCHANGED <<pc, items, index, qtopic>>
           ELSE IF LoadRaises(store, topic)
           THEN /\ out' = "TypeError"
                /\ pc' = "crashed"
                /\ UNCHANGED <<items, index, qtopic>>
           ELSE IF loaded.items = <<>>
           THEN /\ out' = "No vocabulary items in this topic"
                /\ UNCHANGED <<pc, items, index, qtopic>>
           ELSE /\ pc' = "quiz"
                /\ items' = loaded.items
                /\ index' = 1
                /\ qtopic' = topic
                /\ out' = "Word"
    /\ store' = store

\* a variant that dumps the list inside the loop, after every answer
answer_eager_dump(user_translation) ==
    /\ pc = "quiz"
    /\ LET item == items[index]
           updated == [items EXCEPT ![index] = Score(item, user_translation)]
       IN  /\ out' = IF user_translation = Lower(item.translation)
                     THEN "CORRECT!" ELSE "WRONG!"
           /\ store' = dump_vocabulary_items(store, qtopic, updated)
           /\ IF index < Len(items)
              THEN /\ items' = updated
                   /\ index' = index + 1
                   /\ UNCHANGED <<pc, qtopic>>
              ELSE /\ pc' = "repl"
                   /\ items' = <<>>
                   /\ index' = 0
                   /\ qtopic' = <<>>

\* one pass of vocabulary_test's loop body: the answer to the word shown, and
\* after the last item the dump that ends the method
answer(user_translation) ==
    /\ pc = "quiz"
    /\ LET item == items[index]
           updated == [items EXCEPT ![index] = Score(item, user_translation)]
       IN  /\ out' = IF user_translation = Lower(item.translation)
                     THEN "CORRECT!" ELSE "WRONG!"
           /\ IF index < Len(items)
              THEN /\ items' = updated
                   /\ index' = index + 1
                   /\ UNCHANGED <<store, pc, qtopic>>
              ELSE /\ store' = dump_vocabulary_items(store, qtopic, updated)
                   /\ pc' = "repl"
                   /\ items' = <<>>
                   /\ index' = 0
                   /\ qtopic' = <<>>

\* exit_app
exit_app ==
    /\ pc = "repl"
    /\ pc' = "exited"
    /\ out' = "Goodbye!"
    /\ UNCHANGED <<store, items, index, qtopic>>

\* KeyboardInterrupt at any prompt, caught under __main__
KeyboardInterrupt ==
    /\ pc \in {"repl", "quiz"}
    /\ pc' = "exited"
    /\ out' = "Goodbye!"
    /\ UNCHANGED <<store, items, index, qtopic>>

RECURSIVE SumLen(_, _)
SumLen(st, ts) ==
    IF ts = {} THEN 0
    ELSE LET t == CHOOSE x \in ts : TRUE
         IN  Len(st[t].data) + SumLen(st, ts \ {t})

\* the number of records in all topic files together
TotalItems(st) == SumLen(st, Topics)

\* handle_user_input lowercases the whole command line before it splits it
Arg(token) == Lower(token)

CmdCreate ==
    /\ \E token \in TopicTokens : create_topic(Arg(token))
    /\ UNCHANGED <<runs, streak>>

CmdAdd ==
    /\ \E token \in TopicTokens, w \in WordLines, t \in TransLines,
          s \in ContextStreams :
          /\ TotalItems(store) < MaxItems
          /\ add_item(Arg(token), w, t, s)
    /\ UNCHANGED <<runs, streak>>

CmdTest ==
    /\ runs < MaxRuns
    /\ \E token \in TopicTokens : vocabulary_test(Arg(token))
    /\ runs' = IF pc' = "quiz" THEN runs + 1 ELSE runs
    /\ UNCHANGED streak

Answer ==
    /\ \E a \in AnswerLines : answer(a)
    /\ UNCHANGED <<runs, streak>>

CmdExit == exit_app /\ UNCHANGED <<runs, streak>>

Interrupt == KeyboardInterrupt /\ UNCHANGED <<runs, streak>>

Next ==
    \/ CmdCreate
    \/ CmdAdd
    \/ CmdTest
    \/ Answer
    \/ CmdExit
    \/ Interrupt

Spec == Init /\ [][Next]_vars

(***************************************************************************)
(* The drill: one topic holding one item, tested again and again, with the *)
(* length of the current run of correct (or wrong) answers counted.        *)
(***************************************************************************)
DrillTopic == <<"f">>

NextStreak(correct) ==
    IF correct
    THEN [correct |-> IF streak.correct < MaxStreak THEN streak.correct + 1
                      ELSE MaxStreak,
          wrong |-> 0]
    ELSE [correct |-> 0,
          wrong |-> IF streak.wrong < MaxStreak THEN streak.wrong + 1
                    ELSE MaxStreak]

DrillCreate == create_topic(DrillTopic) /\ UNCHANGED <<runs, streak>>

DrillAdd ==
    /\ store[DrillTopic].data = <<>>
    /\ add_item(DrillTopic, <<"w">>, <<"P">>, << <<>> >>)
    /\ UNCHANGED <<runs, streak>>

DrillTest == vocabulary_test(DrillTopic) /\ UNCHANGED <<runs, streak>>

DrillAnswer ==
    /\ pc = "quiz"
    /\ \E a \in AnswerLines :
          /\ answer(a)
          /\ streak' = NextStreak(a = Lower(items[index].translation))
    /\ UNCHANGED runs

NextDrill ==
    \/ DrillCreate
    \/ DrillAdd
    \/ DrillTest
    \/ DrillAnswer
    \/ Interrupt

SpecDrill == Init /\ [][NextDrill]_vars

(***************************************************************************)
(* Topic files that were not written by the application: the commands run  *)
(* against a topic file found on disk.                                     *)
(***************************************************************************)
FileSamples ==
    { Malformed,
      ArrayFile(<< [word |-> <<"w">>, translation |-> <<"P">>] >>),
      ArrayFile(<< [word |-> <<"w">>, translation |-> <<"P">>,
                    contexts |-> <<>>, memorization |-> Zero,
                    note |-> <<"c">>] >>),
      ArrayFile(<< [translation |-> <<"P">>, contexts |-> <<>>,
                    memorization |-> Zero] >>) }

InitFiles ==
    /\ store \in {[t \in Topics |-> IF t = DrillTopic THEN f ELSE NoFile] :
                    f \in FileSamples}
    /\ pc = "repl"
    /\ items = <<>>
    /\ index = 0
    /\ qtopic = <<>>
    /\ out = ""
    /\ runs = 0
    /\ streak = [correct |-> 0, wrong |-> 0]

SpecFiles == InitFiles /\ [][Next]_vars

(***************************************************************************)
(* Properties.                                                             *)
(***************************************************************************)
Existing == {t \in Topics : check_topic_existence(store, t)}

Scores(t) == [i \in 1..Len(store[t].data) |-> store[t].data[i].memorization]

\* the bijections of 1..n
Perms(n) == {p \in [1..n -> 1..n] : \A i, j \in 1..n : p[i] = p[j] => i = j}

\* the same items, each as often, in any order
SameItems(a, b) ==
    /\ Len(a) = Len(b)
    /\ \E p \in Perms(Len(a)) : \A i \in 1..Len(a) : a[i] = b[p[i]]

\* equal but for the score
SameButScore(a, b) ==
    /\ a.word = b.word
    /\ a.translation = b.translation
    /\ a.contexts = b.contexts

\* a saved array whose scores are not in descending order
Unsorted(t) ==
    \E i, j \in 1..Len(store[t].data) :
        i < j /\ FLess(Scores(t)[i], Scores(t)[j])

\* C1: from an empty store, whatever is created, added and answered, every
\* item saved in every topic file has a score from 0.0 to 1.0.
C1_MemorizationInRange ==
    \A t \in Topics : \A i \in 1..Len(store[t].data) :
        /\ ~FLess(Scores(t)[i], Zero)
        /\ ~FLess(One, Scores(t)[i])

\* an item that stands at 1.0 after more correct answers in a row than ten
\* steps of 0.1: the upper clamp has cut a sum
C1_Witness ==
    /\ streak.correct = MaxStreak
    /\ \E t \in Topics : \E i \in 1..Len(store[t].data) : Scores(t)[i] = One

\* the double nearest to k/10, as Python reads the literals 0.0, 0.1, ... 1.0
Tenths ==
    << D(26843545, 161061274), D(53687091, 53687092), D(80530636, 214748364),
       D(107374182, 107374184), D(134217728, 0), D(161061273, 161061272),
       D(187904819, 53687088), D(214748364, 214748368),
       D(241591910, 107374184), D(268435456, 0) >>

Decimal(k) == IF k = 0 THEN Zero ELSE Tenths[k]

\* the score of the item just answered, in the list or, after the last
\* item, in the file
ScoreAfterAnswer ==
    IF pc' = "quiz" THEN items'[index].memorization
    ELSE store'[qtopic].data[index].memorization

\* C2: an answer equal to the lowercased translation takes a score of k
\* tenths to min(1.0, (k+1)/10), any other answer to max(0.0, (k-1)/10), as
\* 0.3 becomes 0.4 on a match and 0.2 on a mismatch.
C2_TenthSteps ==
    [][\A a \in AnswerLines : \A k \in 0..10 :
          (pc = "quiz" /\ answer(a) /\ items[index].memorization = Decimal(k))
          => ScoreAfterAnswer =
                IF a = Lower(items[index].translation)
                THEN Decimal(IF k < 10 THEN k + 1 ELSE 10)
                ELSE Decimal(IF k > 0 THEN k - 1 ELSE 0)]_vars

\* C3: load returns the saved items in descending order of score, and items
\* of equal score in the order of the saved array.
C3_LoadSortedStable ==
    \A t \in Existing :
        LET saved == store[t].data
            loaded == load_vocabulary_items(store, t).items
            n == Len(saved)
        IN  /\ Len(loaded) = n
            /\ \E p \in Perms(n) :
                  /\ \A i \in 1..n : loaded[i] = saved[p[i]]
                  /\ \A i, j \in 1..n :
                        i < j =>
                          \/ FLess(loaded[j].memorization, loaded[i].memorization)
                          \/ /\ loaded[i].memorization = loaded[j].memorization
                             /\ p[i] < p[j]

\* a file saved out of order that also holds two different items of equal
\* score
C3_Witness ==
    \E t \in Existing :
        /\ Unsorted(t)
        /\ \E i, j \in 1..Len(store[t].data) :
              /\ i < j
              /\ Scores(t)[i] = Scores(t)[j]
              /\ store[t].data[i] # store[t].data[j]

\* C4: create_topic on a topic that exists reports the error and leaves
\* every topic file as it was.
C4_CreateExistingKeepsStore ==
    [][\A topic \in Topics :
          (check_topic_existence(store, topic) /\ create_topic(topic))
          => (store' = store /\ out' = "Error: Topic already exists")]_vars

\* the error was reported while every existing topic held items
C4_Witness ==
    /\ out = "Error: Topic already exists"
    /\ Existing # {}
    /\ \A t \in Existing : Len(store[t].data) > 0

\* the lines typed before the first blank one
RECURSIVE EnteredLines(_)
EnteredLines(stream) ==
    IF stream = <<>> \/ Strip(Head(stream)) = <<>> THEN <<>>
    ELSE <<Head(stream)>> \o EnteredLines(Tail(stream))

StrippedLines(stream) ==
    [i \in 1..Len(EnteredLines(stream)) |-> Strip(EnteredLines(stream)[i])]

\* an add_item step on an existing topic with a word and a translation that
\* are not blank
ValidAdd(topic, w, t, s) ==
    /\ check_topic_existence(store, topic)
    /\ Strip(w) # <<>>
    /\ Strip(t) # <<>>
    /\ add_item(topic, w, t, s)

\* C5 as stated: after add_item, load yields the prior items and then one
\* new item with the word, the translation and the context lines as typed.
C5_AddKeepsTypedText ==
    [][\A topic \in Topics :
          LET prior == load_vocabulary_items(store, topic).items
              after == load_vocabulary_items(store', topic).items
          IN  \A w \in WordLines, t \in TransLines, s \in ContextStreams :
                 ValidAdd(topic, w, t, s)
                 => after = Append(prior,
                                   VocabularyItem(w, t, EnteredLines(s), Zero))]_vars

\* C5, amended: after add_item, load yields the prior items and then one new
\* item with score 0.0 whose word, translation and context lines are the
\* typed ones without their leading and trailing whitespace, every line
\* before the first blank one in the order typed.
C5_AddKeepsStrippedText ==
    [][\A topic \in Topics :
          LET prior == load_vocabulary_items(store, topic).items
              after == load_vocabulary_items(store', topic).items
          IN  \A w \in WordLines, t \in TransLines, s \in ContextStreams :
                 ValidAdd(topic, w, t, s)
                 => after = Append(prior,
                                   VocabularyItem(Strip(w), Strip(t),
                                                  StrippedLines(s), Zero))]_vars

\* an item with two contexts was added behind an item already tested
C5_Witness ==
    /\ out = "Vocabulary item has been added successfully"
    /\ \E t \in Existing :
          LET n == Len(store[t].data)
          IN  /\ n >= 2
              /\ store[t].data[n].contexts = << <<"d">>, <<"c">> >>
              /\ store[t].data[n].memorization = Zero
              /\ store[t].data[1].memorization # Zero

\* C6: load never raises to its caller, whatever the topic file holds, and
\* the command loop goes on.
C6_LoadNeverRaises == pc # "crashed"

\* C7: vocabulary_test on an existing topic whose file yields no items (an
\* empty array, or text that is not JSON) reports that, asks nothing and
\* writes nothing.
C7_EmptyTopicNoWrite ==
    [][\A topic \in Topics :
          ( /\ check_topic_existence(store, topic)
            /\ ~LoadRaises(store, topic)
            /\ load_vocabulary_items(store, topic).items = <<>>
            /\ vocabulary_test(topic) )
          => /\ store' = store
             /\ pc' = "repl"
             /\ out' = "No vocabulary items in this topic"]_vars

\* the empty state was reported while one topic had nothing to load and
\* another held items
C7_Witness ==
    /\ out = "No vocabulary items in this topic"
    /\ \E t \in Existing : load_vocabulary_items(store, t).items = <<>>
    /\ \E t \in Existing : store[t].data # <<>>

\* the store after save(topic, load(topic))
RoundTrip(st, t) ==
    dump_vocabulary_items(st, t, load_vocabulary_items(st, t).items)

\* C8: save(topic, load(topic)) leaves the same items in the topic file and
\* the other files alone, and a second round trip changes nothing more.
C8_RoundTrip ==
    \A t \in Existing :
        LET once == RoundTrip(store, t)
            twice == RoundTrip(once, t)
        IN  /\ SameItems(once[t].data, store[t].data)
            /\ \A u \in Topics \ {t} : once[u] = store[u]
            /\ twice = once
            /\ load_vocabulary_items(twice, t).items =
                  load_vocabulary_items(once, t).items

\* a file whose round trip rewrites it: saved out of order, with a score
\* that is not the default
C8_Witness ==
    \E t \in Existing : Unsorted(t) /\ RoundTrip(store, t) # store

\* C9: ten correct answers in a row leave the item at 1.0, ten wrong ones
\* at 0.0, and further answers of the same kind keep it there.
C9_WithinTenRuns ==
    pc = "repl" =>
        \A i \in 1..Len(store[DrillTopic].data) :
            /\ streak.correct >= 10 => Scores(DrillTopic)[i] = One
            /\ streak.wrong >= 10 => Scores(DrillTopic)[i] = Zero

\* C10: inside the loop of vocabulary_test the list is the loaded one, item
\* by item; no step before the last answer, an interrupt included, changes
\* a file; the last answer writes the list to its topic's file in the order
\* it was read, and only there.
C10_OneWriteInReadOrder ==
    [][pc = "quiz" =>
          LET read == load_vocabulary_items(store, qtopic).items
              n == Len(read)
          IN  /\ Len(items) = n
              /\ \A i \in 1..n : SameButScore(items[i], read[i])
              /\ \A i \in index..n : items[i] = read[i]
              /\ IF pc' = "repl"
                 THEN /\ index = n
                      /\ store'[qtopic].kind = "array"
                      /\ Len(store'[qtopic].data) = n
                      /\ \A i \in 1..n :
                            SameButScore(store'[qtopic].data[i], read[i])
                      /\ \A i \in 1..(n - 1) : store'[qtopic].data[i] = items[i]
                      /\ \A t \in Topics \ {qtopic} : store'[t] = store[t]
                 ELSE store' = store]_vars

\* a test has ended and left its topic's file out of descending order
C10_Witness ==
    /\ pc = "repl"
    /\ out \in {"CORRECT!", "WRONG!"}
    /\ \E t \in Existing : Unsorted(t)

====
